---- MODULE Spec2Model ----
(***************************************************************************)
(* Model of the retrieval pipeline of ArgumentRx: the EmbeddingManager     *)
(* (src/src/embeddings.py), the UnifiedRetriever (src/src/retrieval.py)    *)
(* and the request handling of ArgumentRx (src/src/argumentrx.py); of the  *)
(* evidence providers of the UnifiedRetriever; of the ArgumentEvaluator    *)
(* (src/src/evaluator.py); and of the two argument generators              *)
(* (src/src/argument_generator.py) as generate_arguments calls them.       *)
(*                                                                         *)
(* Embeddings are two-dimensional integer vectors.  A vector of L2 norm    *)
(* UnitNorm stands for a unit vector, so an inner product of two           *)
(* normalised vectors is a similarity in hundredths: 100 is 1.0, -100 is   *)
(* -1.0, and relevance_score 80 is the 0.8 of the code.  The scores of the *)
(* evaluator are Python floats and keep their rounding: see "Python        *)
(* floats" below.                                                          *)
(***************************************************************************)
EXTENDS Integers, Sequences, FiniteSets, TLC

VARIABLES
    index,            \* EmbeddingManager.index: None, or the vectors of the faiss index
    source_metadata,  \* EmbeddingManager.source_metadata: list of Source
    indexFile,        \* the file "<path>.index"
    metaFile,         \* the file "<path>_metadata.pkl"
    pc,               \* the line the running call has reached, "idle" between calls
    frame,            \* locals of the running create_index call and its caller
    rx,               \* TRUE once an ArgumentRx has been constructed
    req,              \* locals of the last generate_arguments / retrieve_all call
    ret,              \* outcome of the last completed call
    tieRule,          \* how the faiss build in use orders hits of equal score
    lastIndexOp,      \* what the last create_index / load_index call did to the index
    budget,           \* calls the run may still start
    col,              \* the last retrieve_all call: what each provider did and returned
    ev,               \* the last evaluate_argument call: its argument and its metrics
    held,             \* the list a caller still holds from the search_similar call
                      \* made just before the last one
    run               \* the generator and the evaluator key of the ArgumentRx, and
                      \* lines 47-90 of its last generate_arguments call

vars == <<index, source_metadata, indexFile, metaFile, pc, frame, rx, req, ret,
          tieRule, lastIndexOp, budget, col, ev, held, run>>

(***************************************************************************)
(* Bounds of the model.                                                    *)
(***************************************************************************)
MaxPerSource == 1     \* records one provider returns at most
MaxK == 2             \* largest top_k passed to a direct search_similar call
MaxCalls == 3         \* calls in one run of the sequential program
MaxBuildCalls == 3    \* calls in one run with a concurrent reader
MaxSaveCalls == 5     \* calls in one run of builds, saves and loads
MaxRequests == 3      \* ArgumentRx calls in one run

(***************************************************************************)
(* Program constants.                                                      *)
(***************************************************************************)
RETRIEVAL_TOP_K == 10
UnitNorm == 10
FLT_LOWEST == -1000000

Topics == {"t1", "t2"}

(***************************************************************************)
(* Source records.  text stands for title + " " + content.                 *)
(***************************************************************************)
Source(url, text, source_type, relevance_score) ==
    [url |-> url, text |-> text, source_type |-> source_type,
     relevance_score |-> relevance_score]

NewsPool == << Source("n1", "n1", "news", 0), Source("n2", "n2", "news", 0) >>

RedditPool == << Source("r1", "r1", "reddit", 0), Source("r2", "r2", "reddit", 0) >>

Min(a, b) == IF a < b THEN a ELSE b

Prefixes(pool, n) == { SubSeq(pool, 1, m) : m \in 0..Min(n, Len(pool)) }

(***************************************************************************)
(* The embedding model: the mean-pooled hidden state of a text.            *)
(***************************************************************************)
Embedding(text) ==
    CASE text = "n1" -> <<3, 4>>
      [] text = "n2" -> <<6, 8>>
      [] text = "r1" -> <<3, -4>>
      [] text = "r2" -> <<0, 10>>
      [] text = "mock1:t1" -> <<4, 3>>
      [] text = "mock2:t1" -> <<0, 5>>
      [] text = "mock1:t2" -> <<8, 6>>
      [] text = "mock2:t2" -> <<-5, 0>>
      [] text = "t1" -> <<3, 4>>
      [] text = "t2" -> <<10, 0>>

encode_text(texts) == [i \in 1..Len(texts) |-> Embedding(texts[i])]

Dot(a, b) == a[1] * b[1] + a[2] * b[2]

ISqrt(n) == CHOOSE r \in 0..n : r * r <= n /\ (r + 1) * (r + 1) > n

Norm(v) == ISqrt(Dot(v, v))

\* faiss.normalize_L2 on one row; a zero row is left as it is
normalize_L2(v) ==
    IF Norm(v) = 0 THEN v
    ELSE << (v[1] * UnitNorm) \div Norm(v), (v[2] * UnitNorm) \div Norm(v) >>

NormalizeRows(emb) == [i \in 1..Len(emb) |-> normalize_L2(emb[i])]

SourceTexts(sources) == [i \in 1..Len(sources) |-> sources[i].text]

(***************************************************************************)
(* Values of the state.                                                    *)
(***************************************************************************)
NoneIndex == [isNone |-> TRUE, vecs |-> <<>>]
FaissIndex(vecs) == [isNone |-> FALSE, vecs |-> vecs]

MissingFile == [status |-> "missing", data |-> <<>>]
CorruptFile == [status |-> "corrupt", data |-> <<>>]
OkFile(data) == [status |-> "ok", data |-> data]

NoPre == [index |-> NoneIndex, meta |-> <<>>]

NoFrame == [from |-> "none", sources |-> <<>>, emb |-> <<>>, topic |-> "", pre |-> NoPre]

NoReq == [active |-> FALSE, topic |-> "", news |-> <<>>, reddit |-> <<>>,
          blog |-> <<>>, sources |-> <<>>, rebuilt |-> FALSE]

NoRet == [op |-> "none", raised |-> "None", items |-> <<>>, q |-> "", k |-> 0,
          n |-> 0, at |-> "idle", mixed |-> FALSE, pre |-> NoPre]

NoCol == [active |-> FALSE, query |-> "", api_key |-> FALSE,
          response |-> [kind |-> "error", articles |-> <<>>, broken |-> {}],
          reddit |-> FALSE, answers |-> <<>>, calls |-> <<>>, news |-> <<>>,
          reddit_sources |-> <<>>, blog |-> <<>>, result |-> <<>>, raised |-> "None"]

NoMetrics == [clarity_score |-> 0, logic_score |-> 0, evidence_score |-> 0,
              persuasiveness_score |-> 0, overall_score |-> 0, feedback |-> <<>>]

NoEv == [active |-> FALSE, api_key |-> FALSE,
         argument |-> [content |-> <<>>, citations |-> 0],
         completion |-> [raises |-> FALSE, isNone |-> TRUE, text |-> <<>>],
         rule_based_score |-> NoMetrics, llm_called |-> FALSE, llm_score |-> NoMetrics,
         combined_score |-> NoMetrics]

\* stage is "none" up to the search of line 45, then the line about to run,
\* then "returned" or "raised"
NoRun == [stage |-> "none", generator |-> "none", api_key |-> FALSE,
          pro |-> [drafted |-> FALSE, confidence_score |-> 0,
                   argument |-> [content |-> <<>>, citations |-> 0]],
          con |-> [drafted |-> FALSE, confidence_score |-> 0,
                   argument |-> [content |-> <<>>, citations |-> 0]],
          pro_evaluation |-> NoMetrics, con_evaluation |-> NoMetrics, raised |-> "None"]

NoHeld == [active |-> FALSE, q |-> "", k |-> 0, raised |-> "None", items |-> <<>>]

(***************************************************************************)
(* faiss.IndexFlatIP.search for one query row: the top_k inner products in *)
(* descending order, then, when the index holds fewer than top_k vectors,  *)
(* padding hits of label -1 and score -FLT_MAX.  Labels are 0-based.       *)
(***************************************************************************)
HitBefore(vecs, q, rule, i, j) ==
    \/ Dot(vecs[i], q) > Dot(vecs[j], q)
    \/ /\ Dot(vecs[i], q) = Dot(vecs[j], q)
       /\ \/ rule = "low_label_first" /\ i < j
          \/ rule = "high_label_first" /\ i > j

HitRank(vecs, q, rule, i) ==
    Cardinality({ j \in 1..Len(vecs) : HitBefore(vecs, q, rule, j, i) })

IndexSearch(vecs, q, top_k, rule) ==
    [ r \in 1..top_k |->
        IF r <= Len(vecs)
        THEN LET i == CHOOSE i \in 1..Len(vecs) : HitRank(vecs, q, rule, i) = r - 1
             IN [score |-> Dot(vecs[i], q), idx |-> i - 1]
        ELSE [score |-> FLT_LOWEST, idx |-> -1] ]

(***************************************************************************)
(* The loop of search_similar over zip(scores[0], indices[0]).  results    *)
(* holds positions of source_metadata: the returned list holds the very    *)
(* objects of source_metadata, not copies.  A Python list index idx reads  *)
(* position idx + 1 when idx >= 0, position len + idx + 1 when             *)
(* -len <= idx < 0, and raises IndexError otherwise.                       *)
(***************************************************************************)
PyPos(idx, len) == IF idx >= 0 THEN idx + 1 ELSE len + idx + 1

RECURSIVE SearchLoop_Accumulates(_, _, _, _)
\* the loop with source.relevance_score += float(score)
SearchLoop_Accumulates(hits, i, meta, results) ==
    IF i > Len(hits)
    THEN [meta |-> meta, results |-> results, raised |-> "None"]
    ELSE IF hits[i].idx < Len(meta)
         THEN IF PyPos(hits[i].idx, Len(meta)) \in 1..Len(meta)
              THEN SearchLoop_Accumulates(hits, i + 1,
                              [meta EXCEPT ![PyPos(hits[i].idx, Len(meta))].relevance_score
                                               = @ + hits[i].score],
                              Append(results, PyPos(hits[i].idx, Len(meta))))
              ELSE [meta |-> meta, results |-> <<>>, raised |-> "IndexError"]
         ELSE SearchLoop_Accumulates(hits, i + 1, meta, results)

RECURSIVE SearchLoop(_, _, _, _)
SearchLoop(hits, i, meta, results) ==
    IF i > Len(hits)
    THEN [meta |-> meta, results |-> results, raised |-> "None"]
    ELSE IF hits[i].idx < Len(meta)
         THEN IF PyPos(hits[i].idx, Len(meta)) \in 1..Len(meta)
              THEN SearchLoop(hits, i + 1,
                              [meta EXCEPT ![PyPos(hits[i].idx, Len(meta))].relevance_score
                                               = hits[i].score],
                              Append(results, PyPos(hits[i].idx, Len(meta))))
              ELSE [meta |-> meta, results |-> <<>>, raised |-> "IndexError"]
         ELSE SearchLoop(hits, i + 1, meta, results)

TopKOrDefault(top_k) == IF top_k = 0 THEN RETRIEVAL_TOP_K ELSE top_k

\* what the caller reads in the returned list when the call returns
Deref(meta, results) ==
    [ j \in 1..Len(results) |-> [pos |-> results[j], rec |-> meta[results[j]]] ]

search_similar(idx, meta, query, top_k, rule) ==
    IF idx.isNone
    THEN [meta |-> meta, items |-> <<>>, raised |-> "None"]
    ELSE LET q == normalize_L2(encode_text(<<query>>)[1])
             hits == IndexSearch(idx.vecs, q, TopKOrDefault(top_k), rule)
             out == SearchLoop(hits, 1, meta, <<>>)
         IN [meta |-> out.meta, items |-> Deref(out.meta, out.results),
             raised |-> out.raised]

(***************************************************************************)
(* UnifiedRetriever.                                                       *)
(***************************************************************************)
MockText(n, query) ==
    CASE n = 1 /\ query = "t1" -> "mock1:t1"
      [] n = 2 /\ query = "t1" -> "mock2:t1"
      [] n = 1 /\ query = "t2" -> "mock1:t2"
      [] n = 2 /\ query = "t2" -> "mock2:t2"

_create_mock_sources(query) ==
    << Source("https://example.com/mock1", MockText(1, query), "mock", 80),
       Source("https://example.com/mock2", MockText(2, query), "mock", 70) >>

\* CryptoBlogRetriever.search_blogs never appends to its result
search_blogs == <<>>

\* retrieve_all with the reddit records put before the news records
retrieve_all_RedditFirst(query, news_sources, reddit_sources, blog_sources) ==
    LET all_sources == reddit_sources \o news_sources \o blog_sources
    IN IF all_sources = <<>> THEN _create_mock_sources(query) ELSE all_sources

retrieve_all(query, news_sources, reddit_sources, blog_sources) ==
    LET all_sources == news_sources \o reddit_sources \o blog_sources
    IN IF all_sources = <<>> THEN _create_mock_sources(query) ELSE all_sources

NewsResults == Prefixes(NewsPool, MaxPerSource)
RedditResults == Prefixes(RedditPool, MaxPerSource)

Corpora ==
    { retrieve_all(t, n, r, search_blogs) :
        t \in Topics, n \in NewsResults, r \in RedditResults }

(***************************************************************************)
(* vectors and records are aligned when they have the same length and the  *)
(* vector at each position is the normalised embedding of the record at    *)
(* that position.                                                          *)
(***************************************************************************)
Aligned(vecs, records) ==
    /\ Len(vecs) = Len(records)
    /\ \A i \in 1..Len(vecs) : vecs[i] = normalize_L2(Embedding(records[i].text))

(***************************************************************************)
(* The disk when the process starts: no snapshot, the snapshot of an       *)
(* earlier run, or such a snapshot with one file lost or damaged.          *)
(***************************************************************************)
EarlierCorpus == << NewsPool[1], RedditPool[1] >>

EarlierIndexFile == OkFile(NormalizeRows(encode_text(SourceTexts(EarlierCorpus))))
EarlierMetaFile == OkFile(EarlierCorpus)

StartDisks ==
    { <<MissingFile, MissingFile>>,
      <<EarlierIndexFile, EarlierMetaFile>>,
      <<EarlierIndexFile, MissingFile>>,
      <<EarlierIndexFile, CorruptFile>>,
      <<CorruptFile, EarlierMetaFile>> }

InitWith(disks, calls) ==
    /\ index = NoneIndex
    /\ source_metadata = <<>>
    /\ \E d \in disks : indexFile = d[1] /\ metaFile = d[2]
    /\ budget = calls
    /\ pc = "idle"
    /\ frame = NoFrame
    /\ rx = FALSE
    /\ req = NoReq
    /\ ret = NoRet
    /\ tieRule \in {"low_label_first", "high_label_first"}
    /\ lastIndexOp = "none"
    /\ col = NoCol
    /\ ev = NoEv
    /\ held = NoHeld
    /\ run = NoRun

Init == InitWith(StartDisks, MaxCalls)

(***************************************************************************)
(* EmbeddingManager.load_index.  faiss.read_index raises RuntimeError for  *)
(* a file it cannot open or parse; open() raises FileNotFoundError for a   *)
(* missing file; pickle.load raises UnpicklingError for a damaged one.     *)
(* Only FileNotFoundError is caught.                                       *)
(***************************************************************************)
load_index(idx, meta, ifile, mfile) ==
    IF ifile.status # "ok"
    THEN [index |-> idx, meta |-> meta, raised |-> "RuntimeError"]
    ELSE IF mfile.status = "missing"
         THEN [index |-> NoneIndex, meta |-> <<>>, raised |-> "None"]
         ELSE IF mfile.status = "corrupt"
              THEN [index |-> FaissIndex(ifile.data), meta |-> meta,
                    raised |-> "UnpicklingError"]
              ELSE [index |-> FaissIndex(ifile.data), meta |-> mfile.data,
                    raised |-> "None"]

LoadOutcome(out) ==
    IF out.raised = "None" /\ ~out.index.isNone THEN "load" ELSE "load_failed"

(***************************************************************************)
(* EmbeddingManager.save_index.  outcome is what happens to the two        *)
(* writes: "ok" both complete; "interrupted" the call ends after           *)
(* faiss.write_index and before the metadata file is opened;               *)
(* "dump_failed" pickle.dump raises after open(.., 'wb') truncated the     *)
(* metadata file.                                                          *)
(***************************************************************************)
SaveOutcomes == {"ok", "interrupted", "dump_failed"}

save_index(idx, meta, ifile, mfile, outcome) ==
    IF idx.isNone
    THEN [indexFile |-> ifile, metaFile |-> mfile, raised |-> "None"]
    ELSE IF outcome = "ok"
         THEN [indexFile |-> OkFile(idx.vecs), metaFile |-> OkFile(meta),
               raised |-> "None"]
         ELSE IF outcome = "interrupted"
              THEN [indexFile |-> OkFile(idx.vecs), metaFile |-> mfile,
                    raised |-> "OSError"]
              ELSE [indexFile |-> OkFile(idx.vecs), metaFile |-> CorruptFile,
                    raised |-> "OSError"]

Mixed(idx, meta) == ~idx.isNone /\ ~Aligned(idx.vecs, meta)

Outcome(op, raised, items, q, k, n, at, mixed, pre) ==
    [op |-> op, raised |-> raised, items |-> items, q |-> q, k |-> k, n |-> n,
     at |-> at, mixed |-> mixed, pre |-> pre]

(***************************************************************************)
(* ArgumentRx.__init__: the generator of lines 15-18 (openai_api_key is    *)
(* TRUE when Config.OPENAI_API_KEY is set), the evaluator of line 20, which *)
(* takes the same key, a new EmbeddingManager, then load_index inside a    *)
(* bare try/except.                                                        *)
(***************************************************************************)
ArgumentRxInit(use_openai, openai_api_key) ==
    /\ pc = "idle"
    /\ budget > 0
    /\ budget' = budget - 1
    /\ ~rx
    /\ LET out == load_index(NoneIndex, <<>>, indexFile, metaFile)
       IN /\ index' = out.index
          /\ source_metadata' = out.meta
          /\ lastIndexOp' = LoadOutcome(out)
          /\ ret' = Outcome("ArgumentRx", "None", <<>>, "", 0, 0, "idle", FALSE, NoPre)
    /\ rx' = TRUE
    /\ run' = [NoRun EXCEPT !.generator = IF use_openai /\ openai_api_key
                                          THEN "ArgumentGenerator"
                                          ELSE "LocalLLMGenerator",
                            !.api_key = openai_api_key]
    /\ UNCHANGED <<indexFile, metaFile, pc, frame, req, tieRule>>
    /\ UNCHANGED <<col, ev, held>>

LoadIndex ==
    /\ pc = "idle"
    /\ budget > 0
    /\ budget' = budget - 1
    /\ LET out == load_index(index, source_metadata, indexFile, metaFile)
       IN /\ index' = out.index
          /\ source_metadata' = out.meta
          /\ lastIndexOp' = LoadOutcome(out)
          /\ ret' = Outcome("load_index", out.raised, <<>>, "", 0, 0, "idle", FALSE, NoPre)
    /\ UNCHANGED <<indexFile, metaFile, pc, frame, rx, req, tieRule>>
    /\ UNCHANGED <<col, ev, held, run>>

SaveIndex(outcome) ==
    /\ pc = "idle"
    /\ budget > 0
    /\ budget' = budget - 1
    /\ LET out == save_index(index, source_metadata, indexFile, metaFile, outcome)
       IN /\ indexFile' = out.indexFile
          /\ metaFile' = out.metaFile
          /\ ret' = Outcome("save_index", out.raised, <<>>, "", 0, 0, "idle", FALSE, NoPre)
    /\ UNCHANGED <<index, source_metadata, pc, frame, rx, req, tieRule, lastIndexOp>>
    /\ UNCHANGED <<col, ev, held, run>>

(***************************************************************************)
(* EmbeddingManager.search_similar, called between the other calls.  A     *)
(* caller that searches twice in a row holds the list the first call       *)
(* returned while the second runs: KeptResult is that list, with the       *)
(* records as the caller read them when the first call returned.           *)
(***************************************************************************)
KeptResult(outcome) ==
    IF outcome.op = "search_similar"
    THEN [active |-> TRUE, q |-> outcome.q, k |-> outcome.k, raised |-> outcome.raised,
          items |-> outcome.items]
    ELSE NoHeld

SearchSimilar(query, top_k) ==
    /\ pc = "idle"
    /\ budget > 0
    /\ budget' = budget - 1
    /\ LET out == search_similar(index, source_metadata, query, top_k, tieRule)
       IN /\ source_metadata' = out.meta
          /\ ret' = Outcome("search_similar", out.raised, out.items, query,
                            TopKOrDefault(top_k), 0, "idle",
                            Mixed(index, source_metadata), NoPre)
    /\ UNCHANGED <<index, indexFile, metaFile, pc, frame, rx, req, tieRule, lastIndexOp>>
    /\ held' = KeptResult(ret)
    /\ UNCHANGED <<col, ev, run>>

\* search_similar called by another thread while create_index is running
ConcurrentSearch(query, top_k) ==
    /\ pc \in {"ci40", "ci43", "ci45", "ci48"}
    /\ budget > 0
    /\ budget' = budget - 1
    /\ LET out == search_similar(index, source_metadata, query, top_k, tieRule)
       IN /\ source_metadata' = out.meta
          /\ ret' = Outcome("search_similar", out.raised, out.items, query,
                            TopKOrDefault(top_k), 0, pc,
                            Mixed(index, source_metadata), NoPre)
    /\ UNCHANGED <<index, indexFile, metaFile, pc, frame, rx, req, tieRule, lastIndexOp>>
    /\ held' = KeptResult(ret)
    /\ UNCHANGED <<col, ev, run>>

(***************************************************************************)
(* EmbeddingManager.create_index, one action per statement that changes    *)
(* the state.  pc names the line of embeddings.py about to run.            *)
(***************************************************************************)
Frame(from, sources, emb, topic, pre) ==
    [from |-> from, sources |-> sources, emb |-> emb, topic |-> topic, pre |-> pre]

CallerOp == IF frame.from = "generate_arguments" THEN "generate_arguments" ELSE "create_index"

\* an exception leaves create_index and, uncaught, generate_arguments
CreateIndexRaise(raised) ==
    /\ pc' = "idle"
    /\ frame' = NoFrame
    /\ lastIndexOp' = "build_failed"
    /\ ret' = Outcome(CallerOp, raised, <<>>, frame.topic, 0, Len(frame.sources),
                      "idle", FALSE, frame.pre)

StartCreateIndex(sources) ==
    /\ pc = "idle"
    /\ budget > 0
    /\ budget' = budget - 1
    /\ pc' = "ci40"
    /\ frame' = Frame("create_index", sources, <<>>, "", [index |-> index, meta |-> source_metadata])
    /\ ret' = NoRet
    /\ UNCHANGED <<index, source_metadata, indexFile, metaFile, rx, req, tieRule, lastIndexOp>>
    /\ UNCHANGED <<col, ev, held, run>>

\* create_index with an encoder that accepts an empty batch
CreateIndexEncode_AcceptsEmpty ==
    /\ pc = "ci40"
    /\ frame' = [frame EXCEPT !.emb = encode_text(SourceTexts(frame.sources))]
    /\ pc' = "ci43"
    /\ UNCHANGED <<budget, index, source_metadata, indexFile, metaFile, rx, req, ret,
                   tieRule, lastIndexOp>>
    /\ UNCHANGED <<col, ev, held, run>>

\* lines 39-40: the tokenizer raises IndexError on an empty batch
CreateIndexEncode ==
    /\ pc = "ci40"
    /\ IF frame.sources = <<>>
       THEN CreateIndexRaise("IndexError")
       ELSE /\ frame' = [frame EXCEPT !.emb = encode_text(SourceTexts(frame.sources))]
            /\ pc' = "ci43"
            /\ UNCHANGED <<ret, lastIndexOp>>
    /\ UNCHANGED <<budget, index, source_metadata, indexFile, metaFile, rx, req, tieRule>>
    /\ UNCHANGED <<col, ev, held, run>>

\* lines 42-43: self.index = faiss.IndexFlatIP(dimension)
CreateIndexNew ==
    /\ pc = "ci43"
    /\ index' = FaissIndex(<<>>)
    /\ pc' = "ci45"
    /\ UNCHANGED <<budget, source_metadata, indexFile, metaFile, frame, rx, req, ret, tieRule, lastIndexOp>>
    /\ UNCHANGED <<col, ev, held, run>>

\* lines 45-46: normalise, copy to float32 and add; the copy or the add can
\* run out of memory
CreateIndexAdd(fails) ==
    /\ pc = "ci45"
    /\ IF fails
       THEN /\ CreateIndexRaise("MemoryError")
            /\ UNCHANGED index
       ELSE /\ index' = FaissIndex(NormalizeRows(frame.emb))
            /\ pc' = "ci48"
            /\ UNCHANGED <<frame, ret, lastIndexOp>>
    /\ UNCHANGED <<budget, source_metadata, indexFile, metaFile, rx, req, tieRule>>
    /\ UNCHANGED <<col, ev, held, run>>

\* line 48: self.source_metadata = sources, then return to the caller
CreateIndexPublish ==
    /\ pc = "ci48"
    /\ source_metadata' = frame.sources
    /\ lastIndexOp' = "build"
    /\ IF frame.from = "generate_arguments"
       THEN /\ pc' = "ar43"
            /\ UNCHANGED <<frame, ret>>
       ELSE /\ pc' = "idle"
            /\ frame' = NoFrame
            /\ ret' = Outcome("create_index", "None", <<>>, "", 0, Len(frame.sources),
                              "idle", FALSE, frame.pre)
    /\ UNCHANGED <<budget, index, indexFile, metaFile, rx, req, tieRule>>
    /\ UNCHANGED <<col, ev, held, run>>

(***************************************************************************)
(* ArgumentRx.generate_arguments up to the search of line 45.              *)
(***************************************************************************)
Request(topic, news, reddit, blog, sources, rebuilt) ==
    [active |-> TRUE, topic |-> topic, news |-> news, reddit |-> reddit,
     blog |-> blog, sources |-> sources, rebuilt |-> rebuilt]

\* lines 28-42: retrieve_all, then create_index unless a cached index is used
GenerateArguments(topic, use_cached, news_sources, reddit_sources) ==
    /\ pc = "idle"
    /\ budget > 0
    /\ budget' = budget - 1
    /\ rx
    /\ LET sources == retrieve_all(topic, news_sources, reddit_sources, search_blogs)
           rebuild == ~use_cached \/ index.isNone
       IN /\ req' = Request(topic, news_sources, reddit_sources, search_blogs,
                            sources, rebuild)
          /\ IF sources = <<>>
             THEN /\ pc' = "idle"
                  /\ frame' = NoFrame
                  /\ ret' = Outcome("generate_arguments", "NoSources", <<>>, topic, 0, 0,
                                    "idle", FALSE, NoPre)
             ELSE /\ ret' = NoRet
                  /\ frame' = Frame("generate_arguments", sources, <<>>, topic,
                                    [index |-> index, meta |-> source_metadata])
                  /\ pc' = IF rebuild THEN "ci40" ELSE "ar45"
    /\ UNCHANGED <<index, source_metadata, indexFile, metaFile, rx, tieRule, lastIndexOp>>
    /\ run' = [NoRun EXCEPT !.generator = run.generator, !.api_key = run.api_key]
    /\ UNCHANGED <<col, ev, held>>

\* line 43: save_index; an exception leaves generate_arguments
GenerateSave(outcome) ==
    /\ pc = "ar43"
    /\ LET out == save_index(index, source_metadata, indexFile, metaFile, outcome)
       IN /\ indexFile' = out.indexFile
          /\ metaFile' = out.metaFile
          /\ IF out.raised = "None"
             THEN /\ pc' = "ar45"
                  /\ UNCHANGED <<frame, ret>>
             ELSE /\ pc' = "idle"
                  /\ frame' = NoFrame
                  /\ ret' = Outcome("generate_arguments", out.raised, <<>>, frame.topic,
                                    0, 0, "idle", FALSE, NoPre)
    /\ UNCHANGED <<budget, index, source_metadata, rx, req, tieRule, lastIndexOp>>
    /\ UNCHANGED <<col, ev, held, run>>

\* line 45: relevant_sources = search_similar(topic, Config.RETRIEVAL_TOP_K).
\* Lines 47-90 touch neither the index nor the disk: pc returns to "idle" and
\* run.stage names the line the request has reached.
GenerateSearch ==
    /\ pc = "ar45"
    /\ LET out == search_similar(index, source_metadata, frame.topic, RETRIEVAL_TOP_K, tieRule)
       IN /\ source_metadata' = out.meta
          /\ ret' = Outcome("generate_arguments", out.raised, out.items, frame.topic,
                            RETRIEVAL_TOP_K, 0, "idle", Mixed(index, source_metadata), NoPre)
    /\ pc' = "idle"
    /\ frame' = NoFrame
    /\ UNCHANGED <<budget, index, indexFile, metaFile, rx, req, tieRule, lastIndexOp>>
    /\ run' = [run EXCEPT !.stage = IF ret'.raised = "None" THEN "ar47" ELSE "none"]
    /\ UNCHANGED <<col, ev, held>>

(***************************************************************************)
(* The sequential program: calls on one EmbeddingManager, one at a time,   *)
(* on any start disk.                                                      *)
(***************************************************************************)
CreateIndexStep ==
    \/ CreateIndexEncode
    \/ CreateIndexNew
    \/ \E fails \in BOOLEAN : CreateIndexAdd(fails)
    \/ CreateIndexPublish

Next ==
    \/ LoadIndex
    \/ \E outcome \in SaveOutcomes : SaveIndex(outcome)
    \/ \E query \in Topics, top_k \in 0..MaxK : SearchSimilar(query, top_k)
    \/ \E sources \in Corpora \cup {<<>>} : StartCreateIndex(sources)
    \/ CreateIndexStep

Spec == Init /\ [][Next]_vars

(***************************************************************************)
(* Builds with a reader in another thread, on an empty disk.               *)
(***************************************************************************)
InitBuild == InitWith({<<MissingFile, MissingFile>>}, MaxBuildCalls)

NextBuild ==
    \/ \E sources \in Corpora : StartCreateIndex(sources)
    \/ CreateIndexStep
    \/ \E query \in Topics, top_k \in 0..MaxK : SearchSimilar(query, top_k)
    \/ \E query \in Topics, top_k \in 0..MaxK : ConcurrentSearch(query, top_k)

SpecBuild == InitBuild /\ [][NextBuild]_vars

(***************************************************************************)
(* Builds that complete, saves that may be interrupted, and loads, on an   *)
(* empty disk.                                                             *)
(***************************************************************************)
InitSave == InitWith({<<MissingFile, MissingFile>>}, MaxSaveCalls)

CreateIndexRun ==
    \/ CreateIndexEncode
    \/ CreateIndexNew
    \/ CreateIndexAdd(FALSE)
    \/ CreateIndexPublish

NextSave ==
    \/ \E sources \in Corpora : StartCreateIndex(sources)
    \/ CreateIndexRun
    \/ \E outcome \in SaveOutcomes : SaveIndex(outcome)
    \/ LoadIndex

SpecSave == InitSave /\ [][NextSave]_vars

(***************************************************************************)
(* One ArgumentRx serving topic requests, on any start disk.                *)
(***************************************************************************)
InitRx == InitWith(StartDisks, MaxRequests)

NextRx ==
    \/ \E use_openai \in BOOLEAN, openai_api_key \in BOOLEAN :
          ArgumentRxInit(use_openai, openai_api_key)
    \/ \E topic \in Topics, use_cached \in BOOLEAN,
          n \in NewsResults, r \in RedditResults : GenerateArguments(topic, use_cached, n, r)
    \/ CreateIndexStep
    \/ \E outcome \in SaveOutcomes : GenerateSave(outcome)
    \/ GenerateSearch

SpecRx == InitRx /\ [][NextRx]_vars

(***************************************************************************)
(* The providers of UnifiedRetriever (src/src/retrieval.py) and one        *)
(* retrieve_all call with the answers of the outside world as inputs.      *)
(***************************************************************************)
MAX_PER_SOURCE == 5

MaxPosts == 1         \* submissions one subreddit has for a query at most

Subreddits == <<"cryptocurrency", "Bitcoin", "ethereum", "CryptoCurrency">>

\* what requests.get / response.json() give: kind "error" is a failed request
\* or an error status, "malformed" a body that is not the expected JSON,
\* "ok" a body with articles; broken holds the articles whose download fails
NewsResponse(kind, articles, broken) ==
    [kind |-> kind, articles |-> articles, broken |-> broken]

NewsResponses ==
    { NewsResponse("error", <<>>, {}), NewsResponse("malformed", <<>>, {}) }
    \cup { NewsResponse("ok", a, b) : a \in NewsResults, b \in SUBSET (1..MaxPerSource) }

RECURSIVE Articles(_, _, _)
\* lines 40-59: the loop over data['articles']; a failed article is skipped
Articles(response, i, sources) ==
    IF i > Len(response.articles) THEN sources
    ELSE IF i \in response.broken
         THEN Articles(response, i + 1, sources)
         ELSE Articles(response, i + 1, Append(sources, response.articles[i]))

search_news(api_key, response) ==
    IF ~api_key
    THEN [sources |-> <<>>, raised |-> "None"]
    ELSE IF response.kind # "ok"
         THEN [sources |-> <<>>, raised |-> "None"]
         ELSE [sources |-> Articles(response, 1, <<>>), raised |-> "None"]

\* what subreddit.search gives for one subreddit: it raises, or it yields
\* submissions whose content is "long" (50 characters or more) or "short"
SubredditAnswer(raises, posts) == [raises |-> raises, posts |-> posts]

RedditAnswers ==
    LET PostSeqs == UNION { [1..n -> {"long", "short"}] : n \in 0..MaxPosts }
    IN [1..Len(Subreddits) ->
            { SubredditAnswer(TRUE, <<>>) } \cup { SubredditAnswer(FALSE, p) : p \in PostSeqs }]

RECURSIVE Submissions(_, _, _, _, _)
\* lines 89-104: the loop over the submissions of subreddit i
Submissions(i, posts, j, max_results, sources) ==
    IF j > Len(posts) THEN sources
    ELSE IF Len(sources) >= max_results THEN sources
    ELSE IF posts[j] = "short"
         THEN Submissions(i, posts, j + 1, max_results, sources)
         ELSE Submissions(i, posts, j + 1, max_results,
                          Append(sources,
                                 Source("https://reddit.com/r/" \o Subreddits[i] \o "/"
                                            \o ToString(j),
                                        Subreddits[i] \o "/" \o ToString(j), "reddit", 0)))

RECURSIVE SubredditLoop(_, _, _, _)
\* lines 84-108: the loop over the subreddits inside try; the except clause
\* prints and falls through to `return sources`
SubredditLoop(answers, i, max_results, sources) ==
    IF i > Len(Subreddits) THEN sources
    ELSE IF answers[i].raises THEN sources
    ELSE LET limit == max_results \div Len(Subreddits)
             submissions == SubSeq(answers[i].posts, 1, Min(limit, Len(answers[i].posts)))
         IN SubredditLoop(answers, i + 1, max_results,
                          Submissions(i, submissions, 1, max_results, sources))

\* reddit is FALSE when praw.Reddit could not be constructed (line 73)
search_reddit(reddit, answers, max_results) ==
    IF ~reddit
    THEN [sources |-> <<>>, raised |-> "None"]
    ELSE [sources |-> SubredditLoop(answers, 1, max_results, <<>>), raised |-> "None"]

Collected(query, api_key, response, reddit, answers, calls, news, reddit_sources, blog, result, raised) ==
    [active |-> TRUE, query |-> query, api_key |-> api_key, response |-> response,
     reddit |-> reddit, answers |-> answers, calls |-> calls, news |-> news,
     reddit_sources |-> reddit_sources, blog |-> blog, result |-> result,
     raised |-> raised]

\* retrieve_all, lines 147-162: the three provider calls in order, none of
\* them inside a try, then the concatenation and the mock fallback.  The
\* retrievers keep nothing from one call to the next, so a run is one call.
RetrieveAll(query, api_key, response, reddit, answers) ==
    /\ pc = "idle"
    /\ LET n == search_news(api_key, response)
           r == search_reddit(reddit, answers, MAX_PER_SOURCE)
           calls == IF n.raised # "None" THEN <<"search_news">>
                    ELSE IF r.raised # "None" THEN <<"search_news", "search_reddit">>
                    ELSE <<"search_news", "search_reddit", "search_blogs">>
           raised == IF n.raised # "None" THEN n.raised ELSE r.raised
           result == IF raised # "None" THEN <<>>
                     ELSE retrieve_all(query, n.sources, r.sources, search_blogs)
       IN col' = Collected(query, api_key, response, reddit, answers, calls,
                           n.sources, r.sources, search_blogs, result, raised)
    /\ UNCHANGED <<index, source_metadata, indexFile, metaFile, pc, frame, rx, req, ret,
                   tieRule, lastIndexOp, budget, ev, held, run>>

InitCollect == InitWith({<<MissingFile, MissingFile>>}, 0)

NextCollect ==
    /\ ~col.active
    /\ \E query \in Topics, api_key \in BOOLEAN, response \in NewsResponses,
       reddit \in BOOLEAN, answers \in RedditAnswers :
             RetrieveAll(query, api_key, response, reddit, answers)

SpecCollect == InitCollect /\ [][NextCollect]_vars

(***************************************************************************)
(* Python floats.  A float of the code is an IEEE 754 double; the model    *)
(* keeps its exact value as a natural number of units of 2^-78, written as *)
(* 7 limbs of 13 bits, least significant limb first.  That is exact for 0  *)
(* and for every double from 2^-25 to 8191, which covers every score of    *)
(* the evaluator.  Sums, products and quotients are computed exactly and   *)
(* then rounded to 53 significant bits, ties to even, as the hardware      *)
(* does.  No float of the code is negative: it adds, multiplies and        *)
(* divides non-negative values, and the pattern of a score has no sign.    *)
(***************************************************************************)
LimbBase == 2^13

RECURSIVE CarryFrom(_, _, _)
\* the limbs of a number given as columns that may exceed a limb
CarryFrom(cols, i, carry) ==
    IF i > Len(cols) THEN <<>>
    ELSE << (cols[i] + carry) % LimbBase >>
         \o CarryFrom(cols, i + 1, (cols[i] + carry) \div LimbBase)

\* x + y, one limb longer than the longer of the two
AddLimbs(x, y) ==
    LET n == (IF Len(x) > Len(y) THEN Len(x) ELSE Len(y)) + 1
        LimbAt(z, i) == IF i \in 1..Len(z) THEN z[i] ELSE 0
    IN CarryFrom([i \in 1..n |-> LimbAt(x, i) + LimbAt(y, i)], 1, 0)

RECURSIVE Column(_, _, _, _)
\* the sum of the x[i] * y[j] with i + j = k + 1, from i on
Column(x, y, k, i) ==
    IF i > Len(x) THEN 0
    ELSE (IF k + 1 - i \in 1..Len(y) THEN x[i] * y[k + 1 - i] ELSE 0)
         + Column(x, y, k, i + 1)

\* x * y, as long as the two together
MulLimbs(x, y) == CarryFrom([k \in 1..(Len(x) + Len(y)) |-> Column(x, y, k, 1)], 1, 0)

RECURSIVE DivLimbs(_, _, _, _)
\* x \div den for a small den, from limb i down, with the remainder
DivLimbs(x, i, rem, den) ==
    IF i = 0 THEN [quotient |-> <<>>, rem |-> rem]
    ELSE LET cur == rem * LimbBase + x[i]
             rest == DivLimbs(x, i - 1, cur % den, den)
         IN [quotient |-> Append(rest.quotient, cur \div den), rem |-> rest.rem]

\* x rounded to 53 significant bits, ties to even, one limb longer than x;
\* sticky tells that the exact value is above x by less than one unit.
\* Bit p of x has weight 2^(p - 1); the k lowest bits are rounded away.
Round(x, sticky) ==
    LET top == CHOOSE i \in 0..Len(x) :
                   (i = 0 \/ x[i] # 0) /\ \A j \in (i + 1)..Len(x) : x[j] = 0
        bits == IF top = 0 THEN 0
                ELSE 13 * (top - 1)
                     + (CHOOSE n \in 1..13 : x[top] < 2^n /\ x[top] >= 2^(n - 1))
        k == bits - 53
        Bit(p) == (x[(p - 1) \div 13 + 1] \div 2^((p - 1) % 13)) % 2
        ClearLow(m) ==
            [i \in 1..Len(x) |->
                IF i * 13 <= m THEN 0
                ELSE IF (i - 1) * 13 >= m THEN x[i]
                ELSE x[i] - (x[i] % 2^(m - (i - 1) * 13))]
        PowerOfTwo == [i \in 1..Len(x) |-> IF i = k \div 13 + 1 THEN 2^(k % 13) ELSE 0]
    IN IF k <= 0 THEN x \o << 0 >>
       ELSE IF Bit(k) = 1 /\ (sticky \/ ClearLow(k - 1) # x \/ Bit(k + 1) = 1)
       THEN AddLimbs(ClearLow(k), PowerOfTwo)
       ELSE ClearLow(k) \o << 0 >>

\* float arithmetic: a + b; a * b, whose exact value is in units of 2^-156;
\* a / n for a small integer n.  u and v are the values of a and b.
FAdd(a, b) ==
    CHOOSE r \in { SubSeq(Round(AddLimbs(u, v), FALSE), 1, 7) : u \in {a}, v \in {b} } : TRUE

FMul(a, b) ==
    CHOOSE r \in { SubSeq(Round(MulLimbs(u, v), FALSE), 7, 13) : u \in {a}, v \in {b} } : TRUE

FDiv(a, n) ==
    CHOOSE r \in { SubSeq(Round(d.quotient, d.rem # 0), 7, 13) :
                     d \in { DivLimbs([i \in 1..13 |-> IF i > 6 THEN u[i - 6] ELSE 0], 13, 0, n) :
                                u \in {a} } } : TRUE

\* float(n) of a small natural number n
FInt(n) == [i \in 1..7 |-> IF i = 7 THEN n ELSE 0]

\* a < b
FLess(a, b) ==
    \E u \in {a}, v \in {b} :
        \E i \in 1..7 : u[i] < v[i] /\ \A j \in (i + 1)..7 : u[j] = v[j]

\* min(a, b)
FMin(a, b) == CHOOSE r \in { IF FLess(v, u) THEN v ELSE u : u \in {a}, v \in {b} } : TRUE

\* the decimal literal 0.nn of the code
Hundredths(n) == FDiv(FInt(n), 100)

(***************************************************************************)
(* Text.  A Python str is a sequence of one-character strings.             *)
(***************************************************************************)

UpperCase ==
    <<"A", "B", "C", "D", "E", "F", "G", "H", "I", "J", "K", "L", "M", "N",
      "O", "P", "Q", "R", "S", "T", "U", "V", "W", "X", "Y", "Z">>

LowerCase ==
    <<"a", "b", "c", "d", "e", "f", "g", "h", "i", "j", "k", "l", "m", "n",
      "o", "p", "q", "r", "s", "t", "u", "v", "w", "x", "y", "z">>

Digits ==
    <<"0", "1", "2", "3", "4", "5", "6", "7", "8", "9">>

Range(s) == { s[i] : i \in 1..Len(s) }

IndexOf(s, c) == CHOOSE i \in 1..Len(s) : s[i] = c

\* str.lower
lower(s) ==
    [i \in 1..Len(s) |->
        IF s[i] \in Range(UpperCase) THEN LowerCase[IndexOf(UpperCase, s[i])] ELSE s[i]]

\* str.strip
IsSpace(c) == c \in {" ", "\n", "\t", "\r"}

RECURSIVE lstrip(_)
lstrip(s) == IF s # <<>> /\ IsSpace(Head(s)) THEN lstrip(Tail(s)) ELSE s

RECURSIVE rstrip(_)
rstrip(s) ==
    IF s # <<>> /\ IsSpace(s[Len(s)]) THEN rstrip(SubSeq(s, 1, Len(s) - 1)) ELSE s

strip(s) == rstrip(lstrip(s))

\* w at position i of s
StartsAt(s, w, i) ==
    /\ i + Len(w) - 1 <= Len(s)
    /\ \A k \in 1..Len(w) : s[i + k - 1] = w[k]

RECURSIVE split(_, _)
\* str.split(sep) for a one-character sep
split(s, sep) ==
    IF sep \notin Range(s) THEN << s >>
    ELSE << SubSeq(s, 1, IndexOf(s, sep) - 1) >>
         \o split(SubSeq(s, IndexOf(s, sep) + 1, Len(s)), sep)

RECURSIVE SumWordCounts(_)
\* the sum of len(s.split()) over the sentences; len(s.split()) counts the
\* maximal runs of characters that are not whitespace
SumWordCounts(sentences) ==
    LET WordCount(s) ==
            Cardinality({ i \in 1..Len(s) : ~IsSpace(s[i]) /\ (i = 1 \/ IsSpace(s[i - 1])) })
    IN IF sentences = <<>> THEN 0
       ELSE WordCount(Head(sentences)) + SumWordCounts(Tail(sentences))

\* the regular expression classes \w and \d, and \b before position p
IsWordAt(s, k) ==
    /\ k \in 1..Len(s)
    /\ s[k] \in Range(UpperCase) \cup Range(LowerCase) \cup Range(Digits) \cup {"_"}

WordBoundary(s, p) == IsWordAt(s, p - 1) # IsWordAt(s, p)

AllDigits(s, i, j) == i <= j /\ j <= Len(s) /\ \A k \in i..j : s[k] \in Range(Digits)

\* re.search(r'\b(w1|w2|..)\b', s)
SearchWord(s, ws) ==
    \E n \in 1..Len(ws), i \in 1..Len(s) :
        /\ StartsAt(s, ws[n], i)
        /\ WordBoundary(s, i)
        /\ WordBoundary(s, i + Len(ws[n]))

\* re.search(r'\b\d+(?:\.\d+)?%?\b', s)
SearchNumber(s) ==
    \E i \in 1..Len(s) :
        /\ WordBoundary(s, i)
        /\ s[i] \in Range(Digits)
        /\ \E a \in i..Len(s) :
              /\ AllDigits(s, i, a)
              /\ \E b \in a..Len(s) :
                    /\ b = a \/ (a + 1 <= Len(s) /\ s[a + 1] = "." /\ AllDigits(s, a + 2, b))
                    /\ \E e \in {b, b + 1} :
                          /\ e = b \/ (e <= Len(s) /\ s[e] = "%")
                          /\ WordBoundary(s, e + 1)

\* the number of the ws that are `in content.lower()`
Hits(content, ws) ==
    LET text == lower(content)
    IN Cardinality({ n \in 1..Len(ws) : \E i \in 1..Len(text) : StartsAt(text, ws[n], i) })

(***************************************************************************)
(* The rule-based scorer of ArgumentEvaluator.                             *)
(***************************************************************************)
Argument(content, citations) == [content |-> content, citations |-> citations]

EvaluationMetrics(clarity_score, logic_score, evidence_score, persuasiveness_score, overall_score, feedback) ==
    [clarity_score |-> clarity_score, logic_score |-> logic_score,
     evidence_score |-> evidence_score, persuasiveness_score |-> persuasiveness_score,
     overall_score |-> overall_score, feedback |-> feedback]

\* the average sentence length of lines 58-59 lies in [10, 25]
SentenceLengthInRange(content) ==
    LET sentences == split(content, ".")
        total == SumWordCounts(sentences)
        n == IF Len(sentences) > 1 THEN Len(sentences) ELSE 1
    IN 10 * n <= total /\ total <= 25 * n

transition_words ==
    << <<"h", "o", "w", "e", "v", "e", "r">>,
       <<"f", "u", "r", "t", "h", "e", "r", "m", "o", "r", "e">>,
       <<"m", "o", "r", "e", "o", "v", "e", "r">>,
       <<"t", "h", "e", "r", "e", "f", "o", "r", "e">>,
       <<"c", "o", "n", "s", "e", "q", "u", "e", "n", "t", "l", "y">>,
       <<"a", "d", "d", "i", "t", "i", "o", "n", "a", "l", "l", "y">> >>

_evaluate_clarity(content) ==
    LET score == FAdd(FAdd(FAdd(Hundredths(50),
                 IF SentenceLengthInRange(content) THEN Hundredths(20) ELSE FInt(0)),
                 IF Hits(content, transition_words) > 0 THEN Hundredths(20) ELSE FInt(0)),
                 IF "," \in Range(content) THEN Hundredths(10) ELSE FInt(0))
    IN FMin(score, FInt(1))

_evaluate_logic(content) ==
    LET ordinal_words ==
            << <<"f", "i", "r", "s", "t">>,
               <<"s", "e", "c", "o", "n", "d">>,
               <<"t", "h", "i", "r", "d">>,
               <<"f", "i", "n", "a", "l", "l", "y">> >>
        logical_indicators ==
            << <<"b", "e", "c", "a", "u", "s", "e">>,
               <<"s", "i", "n", "c", "e">>,
               <<"t", "h", "e", "r", "e", "f", "o", "r", "e">>,
               <<"t", "h", "u", "s">>,
               <<"c", "o", "n", "s", "e", "q", "u", "e", "n", "t", "l", "y">>,
               <<"a", "s", " ", "a", " ", "r", "e", "s", "u", "l", "t">> >>
        logical_count == Hits(content, logical_indicators)
        score == FAdd(FAdd(Hundredths(40),
                 FMin(FMul(FInt(logical_count), Hundredths(10)), Hundredths(40))),
                 IF SearchWord(lower(content), ordinal_words) THEN Hundredths(20) ELSE FInt(0))
    IN FMin(score, FInt(1))

_evaluate_evidence(argument) ==
    LET evidence_phrases ==
            << <<"a", "c", "c", "o", "r", "d", "i", "n", "g", " ", "t", "o">>,
               <<"r", "e", "s", "e", "a", "r", "c", "h", " ", "s", "h", "o", "w",
                 "s">> >>
        citation_count == argument.citations
        score == FAdd(FAdd(FAdd(Hundredths(30),
                 FMin(FMul(FInt(citation_count), Hundredths(15)), Hundredths(40))),
                 IF Hits(argument.content, evidence_phrases) > 0 THEN Hundredths(20) ELSE FInt(0)),
                 IF SearchNumber(argument.content) THEN Hundredths(10) ELSE FInt(0))
    IN FMin(score, FInt(1))

_evaluate_persuasiveness(content) ==
    LET rhetorical_patterns ==
            << <<"w", "h", "y", " ", "s", "h", "o", "u", "l", "d">>,
               <<"i", "m", "a", "g", "i", "n", "e", " ", "i", "f">>,
               <<"c", "o", "n", "s", "i", "d", "e", "r", " ", "t", "h", "i", "s">> >>
        persuasive_words ==
            << <<"s", "i", "g", "n", "i", "f", "i", "c", "a", "n", "t">>,
               <<"c", "r", "u", "c", "i", "a", "l">>,
               <<"e", "s", "s", "e", "n", "t", "i", "a", "l">>,
               <<"i", "m", "p", "o", "r", "t", "a", "n", "t">>,
               <<"c", "o", "m", "p", "e", "l", "l", "i", "n", "g">>,
               <<"o", "v", "e", "r", "w", "h", "e", "l", "m", "i", "n", "g">> >>
        persuasive_count == Hits(content, persuasive_words)
        score == FAdd(FAdd(FAdd(Hundredths(40),
                 FMin(FMul(FInt(persuasive_count), Hundredths(5)), Hundredths(30))),
                 IF "!" \in Range(content) THEN Hundredths(10) ELSE FInt(0)),
                 IF Hits(content, rhetorical_patterns) > 0 THEN Hundredths(20) ELSE FInt(0))
    IN FMin(score, FInt(1))

feedback_catalog ==
    << <<"C", "o", "n", "s", "i", "d", "e", "r", " ", "i", "m", "p", "r", "o",
         "v", "i", "n", "g", " ", "c", "l", "a", "r", "i", "t", "y", " ", "w",
         "i", "t", "h", " ", "s", "h", "o", "r", "t", "e", "r", " ", "s", "e",
         "n", "t", "e", "n", "c", "e", "s", " ", "a", "n", "d", " ", "c", "l",
         "e", "a", "r", "e", "r", " ", "t", "r", "a", "n", "s", "i", "t", "i",
         "o", "n", "s", ".">>,
       <<"S", "t", "r", "e", "n", "g", "t", "h", "e", "n", " ", "l", "o", "g",
         "i", "c", "a", "l", " ", "f", "l", "o", "w", " ", "w", "i", "t", "h",
         " ", "m", "o", "r", "e", " ", "e", "x", "p", "l", "i", "c", "i", "t",
         " ", "r", "e", "a", "s", "o", "n", "i", "n", "g", " ", "c", "o", "n",
         "n", "e", "c", "t", "i", "o", "n", "s", ".">>,
       <<"A", "d", "d", " ", "m", "o", "r", "e", " ", "c", "i", "t", "a", "t",
         "i", "o", "n", "s", " ", "a", "n", "d", " ", "s", "p", "e", "c", "i",
         "f", "i", "c", " ", "e", "v", "i", "d", "e", "n", "c", "e", " ", "t",
         "o", " ", "s", "u", "p", "p", "o", "r", "t", " ", "c", "l", "a", "i",
         "m", "s", ".">>,
       <<"E", "n", "h", "a", "n", "c", "e", " ", "p", "e", "r", "s", "u", "a",
         "s", "i", "v", "e", "n", "e", "s", "s", " ", "w", "i", "t", "h", " ",
         "s", "t", "r", "o", "n", "g", "e", "r", " ", "l", "a", "n", "g", "u",
         "a", "g", "e", " ", "a", "n", "d", " ", "r", "h", "e", "t", "o", "r",
         "i", "c", "a", "l", " ", "t", "e", "c", "h", "n", "i", "q", "u", "e",
         "s", ".">>,
       <<"S", "t", "r", "o", "n", "g", " ", "a", "r", "g", "u", "m", "e", "n",
         "t", " ", "w", "i", "t", "h", " ", "g", "o", "o", "d", " ", "b", "a",
         "l", "a", "n", "c", "e", " ", "a", "c", "r", "o", "s", "s", " ", "a",
         "l", "l", " ", "c", "r", "i", "t", "e", "r", "i", "a", ".">> >>

RECURSIVE join(_)
\* " ".join(parts)
join(parts) ==
    IF parts = <<>> THEN <<>>
    ELSE IF Len(parts) = 1 THEN parts[1]
    ELSE parts[1] \o <<" ">> \o join(Tail(parts))

_generate_rule_based_feedback(clarity, logic, evidence, persuasiveness) ==
    LET threshold == Hundredths(60)
        feedback_parts ==
            (IF FLess(clarity, threshold) THEN << feedback_catalog[1] >> ELSE <<>>)
            \o (IF FLess(logic, threshold) THEN << feedback_catalog[2] >> ELSE <<>>)
            \o (IF FLess(evidence, threshold) THEN << feedback_catalog[3] >> ELSE <<>>)
            \o (IF FLess(persuasiveness, threshold) THEN << feedback_catalog[4] >> ELSE <<>>)
    IN IF feedback_parts = <<>> THEN feedback_catalog[5] ELSE join(feedback_parts)

\* the same evaluation with the sum of the sub-scores divided by 3
_rule_based_evaluation_MeanOfThree(argument) ==
    LET clarity_score == _evaluate_clarity(argument.content)
        logic_score == _evaluate_logic(argument.content)
        evidence_score == _evaluate_evidence(argument)
        persuasiveness_score == _evaluate_persuasiveness(argument.content)
        overall_score ==
            FDiv(FAdd(FAdd(FAdd(clarity_score, logic_score), evidence_score), persuasiveness_score), 3)
    IN EvaluationMetrics(clarity_score, logic_score, evidence_score,
                         persuasiveness_score, overall_score,
                         _generate_rule_based_feedback(clarity_score, logic_score,
                                                       evidence_score,
                                                       persuasiveness_score))

_rule_based_evaluation(argument) ==
    LET clarity_score == _evaluate_clarity(argument.content)
        logic_score == _evaluate_logic(argument.content)
        evidence_score == _evaluate_evidence(argument)
        persuasiveness_score == _evaluate_persuasiveness(argument.content)
        overall_score ==
            FDiv(FAdd(FAdd(FAdd(clarity_score, logic_score), evidence_score), persuasiveness_score), 4)
    IN EvaluationMetrics(clarity_score, logic_score, evidence_score,
                         persuasiveness_score, overall_score,
                         _generate_rule_based_feedback(clarity_score, logic_score,
                                                       evidence_score,
                                                       persuasiveness_score))

(***************************************************************************)
(* Arguments the evaluator is given.                                       *)
(***************************************************************************)
MaxCitations == 3     \* citations of one argument at most

ScenarioContent ==
    <<"S", "i", "g", "n", "i", "f", "i", "c", "a", "n", "t", " ", "e", "v",
      "i", "d", "e", "n", "c", "e", " ", "s", "h", "o", "w", "s", " ", "t",
      "h", "a", "t", ",", " ", "b", "e", "c", "a", "u", "s", "e", " ", "m",
      "a", "r", "k", "e", "t", "s", " ", "a", "d", "j", "u", "s", "t", ",",
      " ", "t", "h", "e", "r", "e", "f", "o", "r", "e", " ", "p", "r", "i",
      "c", "e", "s", " ", "f", "a", "l", "l", ".", " ", "F", "i", "r", "s",
      "t", ",", " ", "c", "o", "n", "s", "i", "d", "e", "r", " ", "t", "h",
      "i", "s", ":", " ", "d", "e", "m", "a", "n", "d", " ", "d", "r", "o",
      "p", "s", "!">>

Arguments ==
    LET SampleContents ==
            { <<>>,
              ScenarioContent,
              <<"H", "o", "w", "e", "v", "e", "r", ",", " ", "b", "e", "c", "a", "u",
                "s", "e", " ", "s", "i", "n", "c", "e", " ", "t", "h", "e", "r", "e",
                "f", "o", "r", "e", " ", "t", "h", "u", "s", ",", " ", "f", "i", "r",
                "s", "t", " ", "a", "c", "c", "o", "r", "d", "i", "n", "g", " ", "t",
                "o", " ", "5", "0", "%", " ", "s", "i", "g", "n", "i", "f", "i", "c",
                "a", "n", "t", " ", "c", "r", "u", "c", "i", "a", "l", " ", "e", "s",
                "s", "e", "n", "t", "i", "a", "l", " ", "i", "m", "p", "o", "r", "t",
                "a", "n", "t", " ", "c", "o", "m", "p", "e", "l", "l", "i", "n", "g",
                " ", "o", "v", "e", "r", "w", "h", "e", "l", "m", "i", "n", "g", "!",
                " ", "w", "h", "y", " ", "s", "h", "o", "u", "l", "d", " ", "w", "e">>,
              <<"o", "n", "e", " ", "t", "w", "o", " ", "t", "h", "r", "e", "e", " ",
                "f", "o", "u", "r", " ", "f", "i", "v", "e", " ", "s", "i", "x", " ",
                "s", "e", "v", "e", "n", " ", "e", "i", "g", "h", "t", " ", "n", "i",
                "n", "e", " ", "t", "e", "n", ".">>,
              <<"o", "n", "e", " ", "t", "w", "o", " ", "t", "h", "r", "e", "e", " ",
                "f", "o", "u", "r", " ", "f", "i", "v", "e", " ", "s", "i", "x", " ",
                "s", "e", "v", "e", "n", " ", "e", "i", "g", "h", "t", " ", "n", "i",
                "n", "e", " ", "t", "e", "n">>,
              <<"H", "O", "W", "E", "V", "E", "R", " ", "t", "h", "i", "s", " ", "i",
                "s", " ", "I", "m", "p", "o", "r", "t", "a", "n", "t">>,
              <<"v", "2", " ", "c", "o", "s", "t", "s", " ", "3", "r", "d">>,
              <<"u", "p", " ", "1", "2", ".", "5", "%", " ", "n", "o", "w">>,
              <<"u", "n", "i", "m", "p", "o", "r", "t", "a", "n", "t", " ", "f", "i",
                "r", "s", "t", "l", "y">>,
              <<"s", "i", "n", "c", "e", " ", "a", "c", "c", "o", "r", "d", "i", "n",
                "g", " ", "t", "o", " ", "t", "h", "e", "m", "!">> }
    IN { Argument(c, n) : c \in SampleContents, n \in 0..MaxCitations }

(***************************************************************************)
(* The external evaluation.  A Completion is what the call of lines        *)
(* 138-148 gives: it raises, or it returns a message whose content is None *)
(* or a text.                                                              *)
(***************************************************************************)
Completion(raises, isNone, text) == [raises |-> raises, isNone |-> isNone, text |-> text]

Completions ==
    LET SampleTexts ==
            { <<"C", "l", "a", "r", "i", "t", "y", ":", " ", "1", ".", "0", "\n", "L",
                "o", "g", "i", "c", ":", " ", "1", ".", "0", "\n", "E", "v", "i", "d",
                "e", "n", "c", "e", ":", " ", "1", ".", "0", "\n", "P", "e", "r", "s",
                "u", "a", "s", "i", "v", "e", "n", "e", "s", "s", ":", " ", "1", ".",
                "0", "\n", "F", "e", "e", "d", "b", "a", "c", "k", ":", " ", "G", "o",
                "o", "d", ".">>,
              <<"C", "l", "a", "r", "i", "t", "y", ":", " ", "0", ".", "9", "\n", "L",
                "o", "g", "i", "c", ":", " ", "0", ".", "8", "\n", "E", "v", "i", "d",
                "e", "n", "c", "e", ":", " ", "0", ".", "7", "5", "\n", "P", "e", "r",
                "s", "u", "a", "s", "i", "v", "e", "n", "e", "s", "s", ":", " ", "0",
                ".", "6", "\n", "F", "e", "e", "d", "b", "a", "c", "k", ":", " ", " ",
                "S", "o", "l", "i", "d", " ", "c", "a", "s", "e", ".", "\n">>,
              <<"C", "l", "a", "r", "i", "t", "y", ":", " ", "7", ".", "5", "\n", "L",
                "o", "g", "i", "c", ":", " ", "8", "\n", "E", "v", "i", "d", "e", "n",
                "c", "e", ":", " ", "9", "\n", "P", "e", "r", "s", "u", "a", "s", "i",
                "v", "e", "n", "e", "s", "s", ":", " ", "1", "0", "\n", "F", "e", "e",
                "d", "b", "a", "c", "k", ":", " ", "s", "c", "o", "r", "e", "s", " ",
                "o", "u", "t", " ", "o", "f", " ", "t", "e", "n">>,
              <<"I", " ", "c", "a", "n", "n", "o", "t", " ", "e", "v", "a", "l", "u",
                "a", "t", "e", " ", "t", "h", "i", "s", ".">>,
              <<"C", "l", "a", "r", "i", "t", "y", ":", " ", "0", ".", "9", "\n", "L",
                "o", "g", "i", "c", ":", " ", "h", "i", "g", "h", "\n", "P", "e", "r",
                "s", "u", "a", "s", "i", "v", "e", "n", "e", "s", "s", ":", " ", ".",
                "5">> }
    IN { Completion(TRUE, FALSE, <<>>), Completion(FALSE, TRUE, <<>>) }
       \cup { Completion(FALSE, FALSE, t) : t \in SampleTexts }

RECURSIVE DecimalValue(_)
DecimalValue(digits) ==
    IF digits = <<>> THEN 0
    ELSE 10 * DecimalValue(SubSeq(digits, 1, Len(digits) - 1)) + (IndexOf(Digits, digits[Len(digits)]) - 1)

RECURSIVE PowerOfTen(_)
PowerOfTen(n) == IF n = 0 THEN 1 ELSE 10 * PowerOfTen(n - 1)

\* the position after the longest run of whitespace that starts at i
SpaceRunEnd(s, i) ==
    CHOOSE j \in i..(Len(s) + 1) :
        /\ \A k \in i..(j - 1) : IsSpace(s[k])
        /\ j = Len(s) + 1 \/ ~IsSpace(s[j])

IsDigit(c) == c \in Range(Digits)

\* the position after the longest run of digits that starts at i
DigitRunEnd(s, i) ==
    CHOOSE j \in i..(Len(s) + 1) :
        /\ \A k \in i..(j - 1) : IsDigit(s[k])
        /\ j = Len(s) + 1 \/ ~IsDigit(s[j])

\* float() of a text matched by \d+\.?\d* : whole digits, then fraction digits
float(whole, fraction) ==
    FDiv(FInt(DecimalValue(whole \o fraction)), PowerOfTen(Len(fraction)))

\* the labels of the patterns of lines 157-161
Label ==
    [Clarity |-> <<"C", "l", "a", "r", "i", "t", "y">>,
     Logic |-> <<"L", "o", "g", "i", "c">>,
     Evidence |-> <<"E", "v", "i", "d", "e", "n", "c", "e">>,
     Persuasiveness |->
         <<"P", "e", "r", "s", "u", "a", "s", "i", "v", "e", "n", "e", "s", "s">>,
     Feedback |-> <<"F", "e", "e", "d", "b", "a", "c", "k", ":">>]

\* re.search(label + r':\s*(\d+\.?\d*)', text): the leftmost label that is
\* followed, after any whitespace, by a digit; group 1 is matched greedily
LabelAt(text, label, i) ==
    /\ StartsAt(text, label \o <<":">>, i)
    /\ IsDigit((text \o <<" ">>)[SpaceRunEnd(text, i + Len(label) + 1)])

SearchScore(text, label) ==
    IF \E i \in 1..Len(text) : LabelAt(text, label, i)
    THEN LET i == CHOOSE i \in 1..Len(text) :
                     LabelAt(text, label, i) /\ \A j \in 1..(i - 1) : ~LabelAt(text, label, j)
             d1 == SpaceRunEnd(text, i + Len(label) + 1)
             e1 == DigitRunEnd(text, d1)
             d2 == IF e1 <= Len(text) /\ text[e1] = "." THEN e1 + 1 ELSE e1
             e2 == DigitRunEnd(text, d2)
         IN [found |-> TRUE,
             value |-> float(SubSeq(text, d1, e1 - 1), SubSeq(text, d2, e2 - 1))]
    ELSE [found |-> FALSE, value |-> FInt(0)]

\* re.search(r'Feedback:\s*(.+)', text, re.DOTALL): the leftmost label with
\* at least one character after it; group(1).strip() is the rest of the text
\* without the whitespace around it
FeedbackAt(text, i) == StartsAt(text, Label.Feedback, i) /\ i + Len(Label.Feedback) <= Len(text)

SearchFeedback(text) ==
    IF \E i \in 1..Len(text) : FeedbackAt(text, i)
    THEN LET i == CHOOSE i \in 1..Len(text) :
                     FeedbackAt(text, i) /\ \A j \in 1..(i - 1) : ~FeedbackAt(text, j)
         IN [found |-> TRUE,
             value |-> strip(SubSeq(text, i + Len(Label.Feedback), Len(text)))]
    ELSE [found |-> FALSE, value |-> <<>>]

EvaluationParsingFailed ==
    <<"E", "v", "a", "l", "u", "a", "t", "i", "o", "n", " ", "p", "a", "r",
      "s", "i", "n", "g", " ", "f", "a", "i", "l", "e", "d">>

\* lines 155-180; re.search raises TypeError when the content is None, and
\* the bare except of line 179 turns that into the fixed metrics of line 180
_parse_llm_evaluation(content) ==
    IF content.isNone
    THEN EvaluationMetrics(Hundredths(50), Hundredths(50), Hundredths(50), Hundredths(50),
                           Hundredths(50), EvaluationParsingFailed)
    ELSE LET clarity_match == SearchScore(content.text, Label.Clarity)
             logic_match == SearchScore(content.text, Label.Logic)
             evidence_match == SearchScore(content.text, Label.Evidence)
             persuasiveness_match == SearchScore(content.text, Label.Persuasiveness)
             feedback_match == SearchFeedback(content.text)
             clarity_score ==
                 IF clarity_match.found THEN clarity_match.value ELSE Hundredths(50)
             logic_score ==
                 IF logic_match.found THEN logic_match.value ELSE Hundredths(50)
             evidence_score ==
                 IF evidence_match.found THEN evidence_match.value ELSE Hundredths(50)
             persuasiveness_score ==
                 IF persuasiveness_match.found THEN persuasiveness_match.value
                 ELSE Hundredths(50)
             feedback ==
                 IF feedback_match.found THEN feedback_match.value
                 ELSE <<"N", "o", " ", "f", "e", "e", "d", "b", "a", "c", "k", " ", "a", "v",
                        "a", "i", "l", "a", "b", "l", "e">>
             overall_score ==
                 FDiv(FAdd(FAdd(FAdd(clarity_score, logic_score), evidence_score), persuasiveness_score), 4)
         IN EvaluationMetrics(clarity_score, logic_score, evidence_score,
                              persuasiveness_score, overall_score, feedback)

\* lines 137-153: the call and the parse inside try, the rule-based metrics
\* in the except clause
_llm_evaluation(argument, completion) ==
    IF completion.raises
    THEN _rule_based_evaluation(argument)
    ELSE _parse_llm_evaluation(completion)

Weighted(weight_rule, rule, weight_llm, llm) == FAdd(FMul(weight_rule, rule), FMul(weight_llm, llm))

_combine_scores(rule_based, llm_based) ==
    LET weight_rule == Hundredths(40)
        weight_llm == Hundredths(60)
    IN EvaluationMetrics(
           Weighted(weight_rule, rule_based.clarity_score, weight_llm, llm_based.clarity_score),
           Weighted(weight_rule, rule_based.logic_score, weight_llm, llm_based.logic_score),
           Weighted(weight_rule, rule_based.evidence_score, weight_llm, llm_based.evidence_score),
           Weighted(weight_rule, rule_based.persuasiveness_score, weight_llm,
                    llm_based.persuasiveness_score),
           Weighted(weight_rule, rule_based.overall_score, weight_llm, llm_based.overall_score),
           llm_based.feedback)

Evaluated(api_key, argument, completion, rule_based_score, llm_called, llm_score, combined_score) ==
    [active |-> TRUE, api_key |-> api_key, argument |-> argument,
     completion |-> completion, rule_based_score |-> rule_based_score,
     llm_called |-> llm_called, llm_score |-> llm_score,
     combined_score |-> combined_score]

\* evaluate_argument that asks the external evaluator whatever api_key is
evaluate_argument_AlwaysAsks(api_key, argument, completion) ==
    CHOOSE metrics \in
        { Evaluated(api_key, argument, completion, rule_based_score, TRUE, llm_score,
                    _combine_scores(rule_based_score, llm_score)) :
            rule_based_score \in {_rule_based_evaluation(argument)},
            llm_score \in {_llm_evaluation(argument, completion)} } : TRUE

\* lines 23-32; api_key is TRUE when self.api_key is a non-empty string
evaluate_argument(api_key, argument, completion) ==
    IF api_key
    THEN CHOOSE metrics \in
             { Evaluated(api_key, argument, completion, rule_based_score, TRUE, llm_score,
                         _combine_scores(rule_based_score, llm_score)) :
                 rule_based_score \in {_rule_based_evaluation(argument)},
                 llm_score \in {_llm_evaluation(argument, completion)} } : TRUE
    ELSE CHOOSE metrics \in
             { Evaluated(api_key, argument, completion, rule_based_score, FALSE,
                         rule_based_score, rule_based_score) :
                 rule_based_score \in {_rule_based_evaluation(argument)} } : TRUE

\* one call of evaluate_argument; the evaluator keeps nothing from one call
\* to the next, so a run is one call
EvaluateArgument(api_key, argument, completion) ==
    /\ pc = "idle"
    /\ ev' = evaluate_argument(api_key, argument, completion)
    /\ UNCHANGED <<index, source_metadata, indexFile, metaFile, pc, frame, rx, req, ret,
                   tieRule, lastIndexOp, budget, col, held, run>>

InitEval == InitWith({<<MissingFile, MissingFile>>}, 0)

NextEval ==
    /\ ~ev.active
    /\ \E api_key \in BOOLEAN, argument \in Arguments, completion \in Completions :
          EvaluateArgument(api_key, argument, completion)

SpecEval == InitEval /\ [][NextEval]_vars

(***************************************************************************)
(* Lines 47-90 of generate_arguments: the two drafts of                    *)
(* generate_pro_con_arguments, their two evaluations and the result.  The  *)
(* answer of the drafting collaborator is an input: it fails, or it gives  *)
(* a text that names `cited` of the sources it was shown.                  *)
(***************************************************************************)
MAX_SOURCES_PER_ARGUMENT == 5

MaxPipelineCalls == 2     \* the construction of the ArgumentRx and one request

Draft(drafted, content, citations, confidence_score) ==
    [drafted |-> drafted, confidence_score |-> confidence_score,
     argument |-> Argument(content, citations)]

\* ArgumentGenerator._generate_argument: any exception of lines 36-47 gives
\* the placeholder of lines 57-63
_generate_argument(sources, stance, answer) ==
    IF answer.fails
    THEN Draft(FALSE,
               <<"U", "n", "a", "b", "l", "e", " ", "t", "o", " ", "g", "e", "n",
                 "e", "r", "a", "t", "e", " ">>
               \o (IF stance = "pro" THEN <<"p", "r", "o">> ELSE <<"c", "o", "n">>)
               \o <<" ", "a", "r", "g", "u", "m", "e", "n", "t", " ", "d", "u", "e",
                    " ", "t", "o", " ", "A", "P", "I", " ", "e", "r", "r", "o", "r",
                    ".">>,
               0, FInt(0))
    ELSE Draft(TRUE, strip(answer.text), Min(answer.cited, Len(sources)), Hundredths(80))

\* LocalLLMGenerator._generate_local_argument after a generate call that
\* returned: one citation for each source
_generate_local_argument(sources, stance, answer) ==
    Draft(TRUE, strip(answer.text), Len(sources), Hundredths(60))

DraftAnswers ==
    { [fails |-> TRUE, text |-> <<>>, cited |-> 0],
      [fails |-> FALSE, cited |-> 1,
       text |-> <<" ", "S", "o", "u", "r", "c", "e", " ", "1", " ", "s", "h",
                 "o", "w", "s", " ", "t", "h", "a", "t", " ", "p", "r", "i",
                 "c", "e", "s", " ", "r", "i", "s", "e", ".", " ">>] }

\* line 47.  LocalLLMGenerator has no except clause: a failing generate call
\* ends generate_arguments with its exception
GenerateDraft(pro_answer, con_answer) ==
    /\ pc = "idle"
    /\ run.stage = "ar47"
    /\ LET relevant_sources ==
               SubSeq(ret.items, 1, Min(Len(ret.items), MAX_SOURCES_PER_ARGUMENT))
       IN IF run.generator = "ArgumentGenerator"
          THEN run' = [run EXCEPT
                          !.stage = "ar49",
                          !.pro = _generate_argument(relevant_sources, "pro", pro_answer),
                          !.con = _generate_argument(relevant_sources, "con", con_answer)]
          ELSE IF pro_answer.fails
          THEN run' = [run EXCEPT !.stage = "raised", !.raised = "RuntimeError"]
          ELSE IF con_answer.fails
          THEN run' = [run EXCEPT
                          !.stage = "raised", !.raised = "RuntimeError",
                          !.pro = _generate_local_argument(relevant_sources, "pro", pro_answer)]
          ELSE run' = [run EXCEPT
                          !.stage = "ar49",
                          !.pro = _generate_local_argument(relevant_sources, "pro", pro_answer),
                          !.con = _generate_local_argument(relevant_sources, "con", con_answer)]
    /\ UNCHANGED <<index, source_metadata, indexFile, metaFile, pc, frame, rx, req, ret,
                   tieRule, lastIndexOp, budget, col, ev, held>>

\* lines 49-90: the two evaluate_argument calls, then the result, which
\* holds both arguments and both evaluations
GenerateEvaluate(pro_completion, con_completion) ==
    /\ pc = "idle"
    /\ run.stage = "ar49"
    /\ \E pro_argument \in {run.pro.argument}, con_argument \in {run.con.argument} :
          \E pro_evaluation \in {evaluate_argument(run.api_key, pro_argument, pro_completion)},
             con_evaluation \in {evaluate_argument(run.api_key, con_argument, con_completion)} :
              /\ ev' = con_evaluation
              /\ run' = [run EXCEPT !.stage = "returned",
                                    !.pro_evaluation = pro_evaluation.combined_score,
                                    !.con_evaluation = con_evaluation.combined_score]
    /\ UNCHANGED <<index, source_metadata, indexFile, metaFile, pc, frame, rx, req, ret,
                   tieRule, lastIndexOp, budget, col, held>>

(***************************************************************************)
(* One ArgumentRx serving a request in which the evidence providers, the   *)
(* drafting collaborator and the external evaluator may fail and           *)
(* everything else works: the disk holds no snapshot, and create_index and *)
(* save_index complete.  The request is made with the default use_cached.  *)
(***************************************************************************)
InitPipeline == InitWith({<<MissingFile, MissingFile>>}, MaxPipelineCalls)

NextPipeline ==
    \/ \E use_openai \in BOOLEAN, openai_api_key \in BOOLEAN :
          ArgumentRxInit(use_openai, openai_api_key)
    \/ /\ run.stage \notin {"ar47", "ar49"}
       /\ \E topic \in Topics, n \in NewsResults, r \in RedditResults :
             GenerateArguments(topic, TRUE, n, r)
    \/ CreateIndexEncode
    \/ CreateIndexNew
    \/ CreateIndexAdd(FALSE)
    \/ CreateIndexPublish
    \/ GenerateSave("ok")
    \/ GenerateSearch
    \/ \E pro_answer \in DraftAnswers, con_answer \in DraftAnswers :
          GenerateDraft(pro_answer, con_answer)
    \/ \E pro_completion \in Completions, con_completion \in Completions :
          /\ run.api_key => \A c \in {pro_completion, con_completion} :
                                c.raises \/ (~c.isNone /\ Len(c.text) \in 30..50)
          /\ ~run.api_key => pro_completion = NoEv.completion /\ con_completion = NoEv.completion
          /\ GenerateEvaluate(pro_completion, con_completion)

SpecPipeline == InitPipeline /\ [][NextPipeline]_vars

(***************************************************************************)
(* Reading a search result.                                                *)
(***************************************************************************)
Scores(items) == [i \in 1..Len(items) |-> items[i].rec.relevance_score]
Positions(items) == [i \in 1..Len(items) |-> items[i].pos]

SameEvidence(a, b) == a.url = b.url /\ a.text = b.text /\ a.source_type = b.source_type

InCorpus(rec, corpus) == \E j \in 1..Len(corpus) : SameEvidence(rec, corpus[j])

SearchReturned == ret.op = "search_similar" /\ ret.raised = "None"

(***************************************************************************)
(* C1.  Between calls, whatever calls ran before and however they ended,   *)
(* the index holds as many vectors as there are records and the vector at  *)
(* each position is the embedding of the record at that position.          *)
(***************************************************************************)
C1_VectorsMatchRecords ==
    pc = "idle" => Aligned(index.vecs, source_metadata)

(***************************************************************************)
(* C2.  A search that runs during a build, or after a build that failed    *)
(* partway, sees a vector store together with the records it was built     *)
(* from: all old or all new.                                               *)
(***************************************************************************)
C2_SearchSeesWholeIndex ==
    ret.op = "search_similar" => ~ret.mixed

(***************************************************************************)
(* C3.  A search of a built index with positive k returns at most k        *)
(* records, every relevance_score within [-1, 1], in descending order of   *)
(* score, records of equal score in corpus order.                          *)
(***************************************************************************)
C3_SearchRanked ==
    (SearchReturned /\ lastIndexOp = "build") =>
        /\ Len(ret.items) <= ret.k
        /\ \A i \in 1..Len(ret.items) :
              /\ Scores(ret.items)[i] >= -(UnitNorm * UnitNorm)
              /\ Scores(ret.items)[i] <= UnitNorm * UnitNorm
        /\ \A i \in 1..Len(ret.items), j \in 1..Len(ret.items) :
              i < j =>
                 \/ Scores(ret.items)[i] > Scores(ret.items)[j]
                 \/ /\ Scores(ret.items)[i] = Scores(ret.items)[j]
                    /\ Positions(ret.items)[i] < Positions(ret.items)[j]

(***************************************************************************)
(* C4.  A search of an index built over N records returns exactly          *)
(* min(k, N) records, no position of the corpus twice.                     *)
(***************************************************************************)
C4_SearchReturnsMinKN ==
    (SearchReturned /\ lastIndexOp = "build") =>
        /\ Len(ret.items) = Min(ret.k, Len(source_metadata))
        /\ \A i \in 1..Len(ret.items), j \in 1..Len(ret.items) :
              i # j => Positions(ret.items)[i] # Positions(ret.items)[j]

(***************************************************************************)
(* C5.  A load whose vector file or metadata file is missing or damaged    *)
(* returns without raising and leaves no index and no records.             *)
(***************************************************************************)
C5_FailedLoadLeavesEmpty ==
    (ret.op = "load_index" /\ (indexFile.status # "ok" \/ metaFile.status # "ok")) =>
        /\ ret.raised = "None"
        /\ index = NoneIndex
        /\ source_metadata = <<>>

C7_SearchWithoutIndex ==
    (ret.op = "search_similar" /\ lastIndexOp \in {"none", "load_failed"}) =>
        /\ ret.raised = "None"
        /\ ret.items = <<>>

(***************************************************************************)
(* C8.  After builds and saves, a save cut short between its two writes    *)
(* included, the two files hold the vectors and the records of one build,  *)
(* and a load that restores an index restores aligned vectors and records. *)
(***************************************************************************)
C8_SnapshotIsOneUnit ==
    /\ (indexFile.status = "ok" /\ metaFile.status = "ok") =>
           Aligned(indexFile.data, metaFile.data)
    /\ (ret.op = "load_index" /\ ret.raised = "None" /\ ~index.isNone) =>
           Aligned(index.vecs, source_metadata)

(***************************************************************************)
(* C9.  Every record a topic request returns as a used source belongs to   *)
(* the corpus retrieve_all collected for that request.                     *)
(***************************************************************************)
C9_SearchesCurrentCorpus ==
    (ret.op = "generate_arguments" /\ ret.raised = "None" /\ req.active) =>
        \A i \in 1..Len(ret.items) : InCorpus(ret.items[i].rec, req.sources)

(***************************************************************************)
(* C10.  retrieve_all returns the news records, then the reddit records,   *)
(* then the blog records when there is any; otherwise exactly two records  *)
(* of source_type "mock"; never the empty list.                            *)
(***************************************************************************)
C10_CollectOrder ==
    req.active =>
        /\ (req.news \o req.reddit \o req.blog # <<>>) =>
               req.sources = req.news \o req.reddit \o req.blog
        /\ (req.news \o req.reddit \o req.blog = <<>>) =>
               /\ Len(req.sources) = 2
               /\ \A i \in 1..Len(req.sources) : req.sources[i].source_type = "mock"
        /\ req.sources # <<>>

C10_Witness ==
    /\ req.active
    /\ req.news # <<>>
    /\ req.reddit # <<>>
    /\ req.sources[1].source_type = "news"
    /\ req.sources[Len(req.sources)].source_type = "reddit"

(***************************************************************************)
(* C11.  Whatever providers fail during retrieve_all (no credentials, a    *)
(* failed request, a malformed response, an exception from the reddit      *)
(* client), every provider is still called, nothing is raised to the       *)
(* caller, and a provider that failed contributes no record.               *)
(***************************************************************************)
NewsFailed == ~col.api_key \/ col.response.kind # "ok"

RedditFailed == ~col.reddit \/ \E i \in 1..Len(col.answers) : col.answers[i].raises

C11_FailedProviderGivesNothing ==
    col.active =>
        /\ col.calls = <<"search_news", "search_reddit", "search_blogs">>
        /\ col.raised = "None"
        /\ NewsFailed => col.news = <<>>
        /\ RedditFailed => col.reddit_sources = <<>>
        /\ \A i \in 1..Len(col.result) :
              /\ (NewsFailed => col.result[i].source_type # "news")
              /\ (RedditFailed => col.result[i].source_type # "reddit")

(***************************************************************************)
(* C12.  relevance_score is written only by search_similar: every record   *)
(* retrieve_all returns, mock records included, carries relevance_score 0, *)
(* and a record kept in source_metadata changes its score only in a step   *)
(* of search_similar that returns that record.                             *)
(***************************************************************************)
C12_OnlySearchWritesScore ==
    /\ [](req.active =>
             \A i \in 1..Len(req.sources) : req.sources[i].relevance_score = 0)
    /\ [][(rx /\ pc # "ci48") =>
             \A i \in 1..Len(source_metadata) :
                 source_metadata'[i] # source_metadata[i] =>
                     /\ pc = "ar45"
                     /\ \E j \in 1..Len(ret'.items) : ret'.items[j].pos = i]_vars

(***************************************************************************)
(* Reading an evaluation.                                                  *)
(***************************************************************************)
SubScores(m) ==
    << m.clarity_score, m.logic_score, m.evidence_score, m.persuasiveness_score >>

\* the overall is the mean of the four sub-scores as Python computes it: the
\* four added from the left, the sum divided by 4
IsMeanOfSubScores(m) ==
    m.overall_score
        = FDiv(FAdd(FAdd(FAdd(m.clarity_score, m.logic_score), m.evidence_score),
                    m.persuasiveness_score), 4)

\* 0 <= x <= 1
InUnitInterval(x) == ~FLess(x, FInt(0)) /\ ~FLess(FInt(1), x)

\* the external evaluator was asked and its call returned
ExternalReturned == ev.active /\ ev.llm_called /\ ~ev.completion.raises

\* the response has no labelled number and no feedback section
NothingParsed(completion) ==
    \/ completion.isNone
    \/ /\ ~SearchScore(completion.text, Label.Clarity).found
       /\ ~SearchScore(completion.text, Label.Logic).found
       /\ ~SearchScore(completion.text, Label.Evidence).found
       /\ ~SearchScore(completion.text, Label.Persuasiveness).found
       /\ ~SearchFeedback(completion.text).found

(***************************************************************************)
(* C13.  For every argument the rule-based evaluation gives clarity,       *)
(* logic, evidence and persuasiveness each in [0, 1], and an overall score *)
(* that is exactly the arithmetic mean of the four.  The witness is the    *)
(* content that earns every bonus: its clarity is the float below 1.0, its *)
(* logic and persuasiveness are 1.0.                                       *)
(***************************************************************************)
C13_RuleBasedInRange ==
    ev.active =>
        /\ \A i \in 1..4 : InUnitInterval(SubScores(ev.rule_based_score)[i])
        /\ IsMeanOfSubScores(ev.rule_based_score)

C13_Witness ==
    /\ ev.active
    /\ ev.argument.citations = MaxCitations
    /\ FLess(ev.rule_based_score.clarity_score, FInt(1))
    /\ ev.rule_based_score.logic_score = FInt(1)
    /\ ev.rule_based_score.persuasiveness_score = FInt(1)
    /\ FLess(Hundredths(90), ev.rule_based_score.evidence_score)

(***************************************************************************)
(* C14.  With an api_key, when the external call fails or its response     *)
(* cannot be parsed, evaluate_argument returns exactly the rule-based      *)
(* metrics: the same sub-scores, the same overall and the same feedback.   *)
(***************************************************************************)
C14_FailureGivesRuleBased ==
    (ev.active /\ ev.api_key /\ (ev.completion.raises \/ NothingParsed(ev.completion))) =>
        ev.combined_score = ev.rule_based_score

(***************************************************************************)
(* C15.  When the external call returns, each sub-score and the overall of *)
(* the result is 0.4 times the rule-based value plus 0.6 times the         *)
(* external value (0.5 and 1.0 give 0.8), and the overall of the result is *)
(* the arithmetic mean of its four sub-scores.                             *)
(***************************************************************************)
C15_BlendWeights ==
    LET Blend(rule, llm, combined) ==
            combined = FAdd(FMul(Hundredths(40), rule), FMul(Hundredths(60), llm))
    IN ExternalReturned =>
        /\ \A i \in 1..4 :
              Blend(SubScores(ev.rule_based_score)[i], SubScores(ev.llm_score)[i],
                    SubScores(ev.combined_score)[i])
        /\ Blend(ev.rule_based_score.overall_score, ev.llm_score.overall_score,
                 ev.combined_score.overall_score)
        /\ \A i \in 1..4 :
              (SubScores(ev.rule_based_score)[i] = Hundredths(50)
                 /\ SubScores(ev.llm_score)[i] = FInt(1))
              => SubScores(ev.combined_score)[i] = Hundredths(80)
        /\ IsMeanOfSubScores(ev.combined_score)

(***************************************************************************)
(* C16.  Without an api_key, evaluate_argument returns the rule-based      *)
(* metrics of its argument, equal in every field, and never asks the       *)
(* external evaluator.                                                     *)
(***************************************************************************)
C16_NoKeyIsRuleBased ==
    (ev.active /\ ~ev.api_key) =>
        /\ ev.combined_score = _rule_based_evaluation(ev.argument)
        /\ ~ev.llm_called

C16_Witness ==
    /\ ev.active
    /\ ~ev.api_key
    /\ ev.argument = Argument(ScenarioContent, 2)
    /\ ev.combined_score.feedback = feedback_catalog[5]

(***************************************************************************)
(* C17.  Every metrics evaluate_argument returns has clarity, logic,       *)
(* evidence, persuasiveness and overall in [0, 1], with or without an      *)
(* api_key and whatever numbers the external response holds.               *)
(***************************************************************************)
C17_ResultInRange ==
    ev.active =>
        /\ \A i \in 1..4 : InUnitInterval(SubScores(ev.combined_score)[i])
        /\ InUnitInterval(ev.combined_score.overall_score)

(***************************************************************************)
(* C18.  The feedback of the result is the text of the feedback section of *)
(* the external response when the response has one, and the rule-based     *)
(* feedback in every other case: no api_key, a failed call, a response     *)
(* without a feedback section.                                             *)
(***************************************************************************)
C18_FeedbackSource ==
    ev.active =>
        IF /\ ev.llm_called
           /\ ~ev.completion.raises
           /\ ~ev.completion.isNone
           /\ SearchFeedback(ev.completion.text).found
        THEN ev.combined_score.feedback = SearchFeedback(ev.completion.text).value
        ELSE ev.combined_score.feedback = ev.rule_based_score.feedback

(***************************************************************************)
(* C19.  Parsing a response sets each sub-score to the number labelled     *)
(* Clarity, Logic, Evidence, Persuasiveness when there is one and to 0.5   *)
(* otherwise; a response from which nothing can be parsed gives 0.5 for    *)
(* every sub-score and the overall, with the feedback "Evaluation parsing  *)
(* failed".                                                                *)
(***************************************************************************)
C19_ParseDefaults ==
    LET Labels == << Label.Clarity, Label.Logic, Label.Evidence, Label.Persuasiveness >>
    IN ExternalReturned =>
        /\ ~ev.completion.isNone =>
              \A i \in 1..4 :
                  SubScores(ev.llm_score)[i]
                      = IF SearchScore(ev.completion.text, Labels[i]).found
                        THEN SearchScore(ev.completion.text, Labels[i]).value
                        ELSE Hundredths(50)
        /\ NothingParsed(ev.completion) =>
              ev.llm_score = EvaluationMetrics(Hundredths(50), Hundredths(50),
                                               Hundredths(50), Hundredths(50),
                                               Hundredths(50), EvaluationParsingFailed)

(***************************************************************************)
(* C20.  For the scenario content with 2 citations the rule-based scorer   *)
(* gives clarity >= 0.8, logic >= 0.8, evidence >= 0.6 and                 *)
(* persuasiveness >= 0.8.                                                  *)
(***************************************************************************)
C20_Scenario ==
    (ev.active /\ ev.argument = Argument(ScenarioContent, 2)) =>
        /\ ~FLess(ev.rule_based_score.clarity_score, Hundredths(80))
        /\ ~FLess(ev.rule_based_score.logic_score, Hundredths(80))
        /\ ~FLess(ev.rule_based_score.evidence_score, Hundredths(60))
        /\ ~FLess(ev.rule_based_score.persuasiveness_score, Hundredths(80))

(***************************************************************************)
(* C23.  The clarity score holds the 0.2 length bonus exactly when the     *)
(* average number of tokens per sentence of the content lies in [10, 25],  *)
(* also for a content whose last sentence ends with a period.  The         *)
(* sentences of a content are its pieces between periods that hold a       *)
(* token; the bonus is in the score when the score exceeds what the        *)
(* transition-word and comma bonuses alone give.                           *)
(***************************************************************************)
C23_LengthBonus ==
    ev.active =>
        LET content == ev.argument.content
            sentences == SelectSeq(split(content, "."),
                                   LAMBDA s : SumWordCounts(<< s >>) > 0)
            tokens == SumWordCounts(sentences)
            other_bonuses ==
                FAdd(FAdd(FAdd(Hundredths(50), FInt(0)),
                     IF Hits(content, transition_words) > 0 THEN Hundredths(20) ELSE FInt(0)),
                     IF "," \in Range(content) THEN Hundredths(10) ELSE FInt(0))
        IN FLess(other_bonuses, ev.rule_based_score.clarity_score)
               <=> /\ sentences # <<>>
                   /\ 10 * Len(sentences) <= tokens
                   /\ tokens <= 25 * Len(sentences)

(***************************************************************************)
(* C22.  Two search_similar calls in a row with the same query and the     *)
(* same top_k, on an index that is neither rebuilt nor reloaded between    *)
(* them, return the same records in the same order with the same           *)
(* relevance_score, and a search_similar call leaves the vectors of the    *)
(* index and the order of source_metadata as they were.                    *)
(***************************************************************************)
C22_SearchIdempotent ==
    /\ [](held.active /\ ret.op = "search_similar" /\ ret.q = held.q /\ ret.k = held.k
             => ret.raised = held.raised /\ ret.items = held.items)
    /\ [][ret'.op = "search_similar"
             => /\ index' = index
                /\ Len(source_metadata') = Len(source_metadata)
                /\ \A i \in 1..Len(source_metadata) :
                       [source_metadata'[i] EXCEPT !.relevance_score = 0]
                           = [source_metadata[i] EXCEPT !.relevance_score = 0]]_vars

\* the second of two equal searches has returned two records or more
C22_Witness ==
    /\ held.active
    /\ ret.op = "search_similar"
    /\ ret.q = held.q
    /\ ret.k = held.k
    /\ ret.raised = "None"
    /\ Len(ret.items) >= 2

(***************************************************************************)
(* C24.  The list an earlier search_similar call returned reads the same   *)
(* after a later search_similar call on the same index with another query: *)
(* its records keep the relevance_score of the earlier query.              *)
(***************************************************************************)
C24_EarlierResultKept ==
    (held.active /\ ret.op = "search_similar" /\ ret.q # held.q /\ ret.k = held.k)
        => Deref(source_metadata, Positions(held.items)) = held.items

(***************************************************************************)
(* C21.  A request in which only evidence providers, the drafting          *)
(* collaborator or the external evaluator fail never ends with an          *)
(* exception: it returns a result with a pro and a con argument and the    *)
(* evaluation of each, and an argument whose drafting failed is the        *)
(* placeholder with confidence 0.                                          *)
(***************************************************************************)
C21_CompleteResult ==
    (pc = "idle" /\ ret.op = "generate_arguments"
        /\ (ret.raised # "None" \/ run.stage \in {"returned", "raised"}))
    => /\ ret.raised = "None"
       /\ run.stage = "returned"
       /\ run.raised = "None"
       /\ \A m \in {run.pro_evaluation, run.con_evaluation} :
              DOMAIN m = DOMAIN NoMetrics
       /\ \A draft \in {run.pro, run.con} :
              /\ DOMAIN draft.argument = {"content", "citations"}
              /\ ~draft.drafted => /\ draft.confidence_score = FInt(0)
                                   /\ draft.argument.citations = 0
                                   /\ draft.argument.content # <<>>

====
